---- MODULE Spec2Model ----
(***************************************************************************)
(* Layout reconstruction of the PaddleOCR server (paddle-server/server.py):*)
(* detect_table_columns_histogram and sort_blocks_by_table_columns.        *)
(*                                                                         *)
(* Coordinates are the integer-valued floats PaddleOCR reports.  A         *)
(* histogram bin edge is i * image_width / num_bins and a peak is the      *)
(* midpoint of a bin, (2i+1) * image_width / (2 * num_bins); both are      *)
(* rationals, so a peak or boundary is kept as its numerator over the      *)
(* common denominator Scale(image_width) = 2 * num_bins and a pixel value  *)
(* x is compared with it as x * Scale(image_width).                        *)
(***************************************************************************)
EXTENDS Integers, Sequences, FiniteSets, Bags, TLC

(***************************************************************************)
(* Bounds of the model and the OCR results it explores                     *)
(***************************************************************************)
\* an OCR result is made of at most MaxRuns column fragments
MaxRuns == 3

\* image widths of the requests: 20 bins of 20 pixels, 22 bins of 40 pixels
Widths == {400, 880}

\* number of consecutive rows in one column fragment
RunLengths == {1, 3}

\* an axis-aligned quadrilateral listed top-left, top-right, bottom-right,
\* bottom-left (the order PaddleOCR uses for upright text)
Quad(x, y) == << <<x, y>>, <<x + 8, y>>, <<x + 8, y + 4>>, <<x, y + 4>> >>

\* the same quadrilateral listed starting from its bottom-right corner
RotQuad(x, y) == << <<x + 8, y + 4>>, <<x, y + 4>>, <<x, y>>, <<x + 8, y>> >>

Shapes == {"a", "b", "c", "d", "e", "f"}

\* the bbox of row k of a column fragment of shape s; rows are 30 pixels apart
\* and shape "f" is a block whose bbox is empty
ShapeBox(s, k) ==
    CASE s = "a" -> Quad(50, 8 + 30 * k)
      [] s = "b" -> Quad(44, 20 + 30 * k)
      [] s = "c" -> Quad(170, 10 + 30 * k)
      [] s = "d" -> RotQuad(165, 8 + 30 * k)
      [] s = "e" -> Quad(185, 30 * k)
      [] s = "f" -> << >>

\* blocks.append({'text': text, 'confidence': confidence, 'bbox': bbox})
Block(s, k) == [text |-> << s, k >>, confidence |-> 90 + k, bbox |-> ShapeBox(s, k)]

Fragment(s, n) == [k \in 1 .. n |-> Block(s, k - 1)]

Fragments == {Fragment(s, n) : s \in Shapes, n \in RunLengths}

RECURSIVE Flatten(_)
Flatten(ss) == IF ss = << >> THEN << >> ELSE ss[1] \o Flatten(Tail(ss))

BlockLists == {Flatten(ss) : ss \in UNION {[1 .. n -> Fragments] : n \in 0 .. MaxRuns}}

\* the two-column scenario: 5 blocks with left edge 10 and 5 with left edge 300,
\* top_y 0, 50, 100, 150, 200 in each group, image_width 500
LeftBlock(k) == [text |-> << "L", k >>, confidence |-> 90 + k, bbox |-> Quad(10, 50 * k)]

RightBlock(k) == [text |-> << "R", k >>, confidence |-> 90 + k, bbox |-> Quad(300, 50 * k)]

TwoColumnBlocks == {LeftBlock(k) : k \in 0 .. 4} \cup {RightBlock(k) : k \in 0 .. 4}

\* the 10 blocks in every input order that lists each group top to bottom:
\* P is the set of positions the left group takes
Interleaved(P) ==
    [p \in 1 .. 10 |->
        IF p \in P THEN LeftBlock(Cardinality({q \in P : q < p}))
        ELSE RightBlock(Cardinality({q \in (1 .. 10) \ P : q < p}))]

TwoColumnLists == {Interleaved(P) : P \in {Q \in SUBSET (1 .. 10) : Cardinality(Q) = 5}}

TwoColumnWidths == {500}

\* the single-column scenario: 6 blocks on rows 30 pixels apart whose left
\* edges lie within a 10 pixel range; the range straddles the bin edge at 60
\* for image_width 400 (bins of 20) and spans three bins for image_width 100
SingleColumnEdges == {55, 60, 65}

SingleColumnBlock(x, k) ==
    [text |-> << "s", k >>, confidence |-> 90 + k, bbox |-> Quad(x, 30 * k)]

SingleColumnLists ==
    {[k \in 1 .. 6 |-> SingleColumnBlock(xs[k], k - 1)] : xs \in [1 .. 6 -> SingleColumnEdges]}

SingleColumnWidths == {100, 400}

\* the tie scenario: blocks "p", "q", "r" cover the same quadrilateral (top_y 8,
\* left_x 165), "r" listing it from the bottom-right corner; they come alone
\* (fallback) or behind two columns of three rows (table mode at width 400)
TieBlocks ==
    { [text |-> << "p", 0 >>, confidence |-> 90, bbox |-> Quad(165, 8)],
      [text |-> << "q", 0 >>, confidence |-> 90, bbox |-> Quad(165, 8)],
      [text |-> << "r", 0 >>, confidence |-> 90, bbox |-> RotQuad(165, 8)] }

TieLists ==
    {prefix \o t : prefix \in {<< >>, Fragment("a", 3) \o Fragment("c", 3)},
                   t \in [1 .. 2 -> TieBlocks] \cup [1 .. 3 -> TieBlocks]}

TieWidths == {400}

\* the merge scenario: columns of three rows whose left edges lie in bins 2,
\* 4, 6 and 8 of the 20 bins of 25 pixels of image_width 500, so that the
\* midpoints of consecutive columns are exactly 50 pixels apart
MergeEdges == {60, 110, 160, 210}

MergeBlock(x, k) ==
    [text |-> << "m", x, k >>, confidence |-> 90 + k, bbox |-> Quad(x, 30 * k)]

MergeColumn(x) == [k \in 1 .. 3 |-> MergeBlock(x, k - 1)]

\* the columns at the edges S, listed left to right
RECURSIVE MergeColumns(_)
MergeColumns(S) ==
    IF S = {} THEN << >>
    ELSE LET x == CHOOSE m \in S : \A e \in S : m <= e
         IN  MergeColumn(x) \o MergeColumns(S \ {x})

\* seq back to front
Reversed(seq) == [i \in DOMAIN seq |-> seq[Len(seq) + 1 - i]]

\* two or more of the columns, listed left to right or back to front
MergeLists ==
    UNION {{MergeColumns(S), Reversed(MergeColumns(S))} :
              S \in {T \in SUBSET MergeEdges : Cardinality(T) >= 2}}

MergeWidths == {500}

\* number of /ocr requests that run sort_blocks_by_table_columns concurrently
NumRequests == 2

Requests == 1 .. NumRequests

\* what a concurrent request sorts: nothing, two blocks the fallback swaps, a
\* table of two columns listed right column first, a block without bbox
ConcLists ==
    { << >>,
      Fragment("c", 1) \o Fragment("a", 1),
      Fragment("e", 3) \o Fragment("a", 3) \o Fragment("c", 1),
      Fragment("f", 1) }

ConcWidths == {400}

\* number of /ready and /ocr requests the server handles concurrently
NumHandlers == 2

Handlers == 1 .. NumHandlers

\* the requests a handler serves: GET /ready, and POST /ocr with a body that
\* has no 'image' key, an image that cannot be decoded, or a valid image
RequestKinds ==
    << [kind |-> "ready", body |-> "none"],
       [kind |-> "ocr", body |-> "no_image"],
       [kind |-> "ocr", body |-> "bad_image"],
       [kind |-> "ocr", body |-> "image"] >>

\* which request each handler serves; the handlers being interchangeable,
\* only the assignments that list the requests in the order of RequestKinds
RequestAssignments ==
    {f \in [Handlers -> DOMAIN RequestKinds] : \A g, h \in Handlers : g < h => f[g] <= f[h]}

\* a message is the sequence of its pieces
PrimitiveMessage == << "could not execute a primitive" >>

\* what ocr.ocr(...) raises: the oneDNN RuntimeError the retry loop is written
\* for, another RuntimeError, and an exception of another type with the same
\* message
EngineFailures ==
    { [type |-> "RuntimeError", message |-> << "(PreconditionNotMet)" >> \o PrimitiveMessage],
      [type |-> "RuntimeError", message |-> << "out of memory" >>],
      [type |-> "OSError", message |-> PrimitiveMessage] }

\* what ocr.ocr(...) returns: None, or a list whose first page is a list of
\* text lines (none, two the fallback swaps, one without bbox coordinates)
EngineResults ==
    { [is_none |-> TRUE, page |-> << >>],
      [is_none |-> FALSE, page |-> << >>],
      [is_none |-> FALSE, page |-> Fragment("c", 1) \o Fragment("a", 1)],
      [is_none |-> FALSE, page |-> Fragment("f", 1)] }

\* the width of the request image
RequestWidth == 400

(***************************************************************************)
(* Helpers: Python's min, max, tuple comparison and the stable sorted()    *)
(***************************************************************************)
SetMin(S) == CHOOSE m \in S : \A e \in S : m <= e

SetMax(S) == CHOOSE m \in S : \A e \in S : m >= e

\* Python tuple comparison a < b, for tuples of integers of equal length
RECURSIVE TupleLess(_, _)
TupleLess(a, b) ==
    IF Len(a) = 0 \/ Len(b) = 0 THEN FALSE
    ELSE IF a[1] # b[1] THEN a[1] < b[1]
    ELSE TupleLess(Tail(a), Tail(b))

\* insert index e behind every index whose key is not greater than keys[e]
RECURSIVE InsertByKey(_, _, _)
InsertByKey(e, s, keys) ==
    IF s = << >> THEN << e >>
    ELSE IF TupleLess(keys[e], keys[s[1]]) THEN << e >> \o s
    ELSE << s[1] >> \o InsertByKey(e, Tail(s), keys)

RECURSIVE SortedFrom(_, _, _)
SortedFrom(k, acc, keys) ==
    IF k > Len(keys) THEN acc
    ELSE SortedFrom(k + 1, InsertByKey(k, acc, keys), keys)

\* sorted(seq, key=...), keys[i] being the key of seq[i]: stable, ascending
sorted(seq, keys) ==
    LET order == SortedFrom(1, << >>, keys)
    IN  [i \in DOMAIN seq |-> seq[order[i]]]

(***************************************************************************)
(* detect_table_columns_histogram                                          *)
(***************************************************************************)
MinBlocks == 5

MinBins == 20

BinDivisor == 40

MinPeakCount == 3

PeakDivisor == 20

MergeDistance == 50

\* "bbox and len(bbox) > 0"
Usable(block) == Len(block.bbox) > 0

min_x(bbox) == SetMin({bbox[i][1] : i \in DOMAIN bbox})

min_y(bbox) == SetMin({bbox[i][2] : i \in DOMAIN bbox})

\* variant: x_coords.extend(xs) in place of x_coords.append(min(xs))
x_coords_all_points(blocks) ==
    LET usable == SelectSeq(blocks, Usable)
    IN  Flatten([i \in DOMAIN usable |->
                    [p \in DOMAIN usable[i].bbox |-> usable[i].bbox[p][1]]])

\* variant: "for block in blocks[:6]", only the first blocks are looked at
x_coords_first_blocks(blocks) ==
    LET usable == SelectSeq(SubSeq(blocks, 1, IF Len(blocks) < 6 THEN Len(blocks) ELSE 6),
                            Usable)
    IN  [i \in DOMAIN usable |-> min_x(usable[i].bbox)]

\* the left edge of every usable block, in input order
x_coords(blocks) ==
    LET usable == SelectSeq(blocks, Usable)
    IN  [i \in DOMAIN usable |-> min_x(usable[i].bbox)]

num_bins(image_width) == SetMax({MinBins, image_width \div BinDivisor})

Scale(image_width) == 2 * num_bins(image_width)

\* np.histogram(range=(0, image_width)): bin i holds edge[i] <= x < edge[i+1],
\* the last bin also holds x = image_width, values outside the range are
\* ignored (-1)
BinIndex(x, image_width) ==
    IF x < 0 \/ x > image_width THEN -1
    ELSE IF x = image_width THEN num_bins(image_width) - 1
    ELSE (x * num_bins(image_width)) \div image_width

hist(xs, image_width) ==
    LET \* the bin of every value, as a tuple
        bin == [k \in DOMAIN xs |-> BinIndex(xs[k], image_width)] \o << >>
    IN  [i \in 0 .. num_bins(image_width) - 1 |->
            Cardinality({k \in DOMAIN bin : bin[k] = i})]

\* variant: the floor of 3 forgotten
threshold_no_floor(blocks) == Len(blocks) \div PeakDivisor

threshold(blocks) == SetMax({MinPeakCount, Len(blocks) \div PeakDivisor})

\* the bins range(1, len(hist) - 1) scans
ScannedBins(image_width) == 1 .. num_bins(image_width) - 2

\* variant: the threshold test left out of the peak condition
IsPeakNoThreshold(h, i, t) == h[i] >= h[i - 1] /\ h[i] >= h[i + 1]

IsPeak(h, i, t) == h[i] >= t /\ h[i] >= h[i - 1] /\ h[i] >= h[i + 1]

\* (bin_edges[i] + bin_edges[i+1]) / 2, over the denominator Scale(image_width)
peak_x(i, image_width) == (2 * i + 1) * image_width

\* the candidate peaks in scan order
RECURSIVE PeaksFrom(_, _, _, _)
PeaksFrom(h, i, t, image_width) ==
    IF i \notin ScannedBins(image_width) THEN << >>
    ELSE (IF IsPeak(h, i, t) THEN << peak_x(i, image_width) >> ELSE << >>)
         \o PeaksFrom(h, i + 1, t, image_width)

candidate_peaks(blocks, image_width) ==
    PeaksFrom(hist(x_coords(blocks), image_width), SetMin(ScannedBins(image_width)),
              threshold(blocks), image_width)

\* variant: "peak - merged_peaks[-1] > 10"
FarEnoughTen(peak, last, image_width) ==
    peak - last > 10 * Scale(image_width)

\* variant: "peak - merged_peaks[-1] >= 50"
FarEnoughInclusive(peak, last, image_width) ==
    peak - last >= MergeDistance * Scale(image_width)

\* "peak - merged_peaks[-1] > 50"
FarEnough(peak, last, image_width) ==
    peak - last > MergeDistance * Scale(image_width)

RECURSIVE MergeFrom(_, _, _, _)
MergeFrom(peaks, k, merged, image_width) ==
    IF k > Len(peaks) THEN merged
    ELSE MergeFrom(peaks, k + 1,
                   IF FarEnough(peaks[k], merged[Len(merged)], image_width)
                   THEN Append(merged, peaks[k]) ELSE merged,
                   image_width)

\* variant: the merge step left out
merged_peaks_none(peaks, image_width) == peaks

merged_peaks(peaks, image_width) ==
    IF Len(peaks) > 1 THEN MergeFrom(peaks, 2, << peaks[1] >>, image_width)
    ELSE peaks

\* variant: "if len(peaks) >= 1"
ReturnPeaksOne(peaks) ==
    IF Len(peaks) >= 1 THEN sorted(peaks, [i \in DOMAIN peaks |-> << peaks[i] >>])
    ELSE << >>

\* "if len(peaks) >= 2: return sorted(peaks)", else []
ReturnPeaks(peaks) ==
    IF Len(peaks) >= 2 THEN sorted(peaks, [i \in DOMAIN peaks |-> << peaks[i] >>])
    ELSE << >>

detect_table_columns_histogram(blocks, image_width) ==
    IF Len(blocks) < MinBlocks THEN << >>
    ELSE IF Len(x_coords(blocks)) < MinBlocks THEN << >>
    ELSE ReturnPeaks(merged_peaks(candidate_peaks(blocks, image_width), image_width))

(***************************************************************************)
(* sort_blocks_by_table_columns                                            *)
(***************************************************************************)
\* key=lambda b: (b['bbox'][0][1], b['bbox'][0][0])
FallbackKey(b) == << b.bbox[1][2], b.bbox[1][1] >>

\* variant: the blocks collected in a dict keyed by the sort key before
\* sorting, so that only one block per key survives
FallbackSortedByDict(blocks) ==
    LET s == sorted(blocks, [i \in DOMAIN blocks |-> FallbackKey(blocks[i])])
        keep == {i \in DOMAIN s : i = 1 \/ FallbackKey(s[i]) # FallbackKey(s[i - 1])}
    IN  [k \in 1 .. Cardinality(keep) |->
            s[CHOOSE i \in keep : Cardinality({j \in keep : j <= i}) = k]]

FallbackSorted(blocks) ==
    sorted(blocks, [i \in DOMAIN blocks |-> FallbackKey(blocks[i])])

\* b['bbox'][0] raises IndexError on an empty bbox
FallbackRaises(blocks) == \E i \in DOMAIN blocks : Len(blocks[i].bbox) = 0

\* variant: "if min_x > boundary"
column_idx_strict(x, column_boundaries, image_width) ==
    LET hit == {i \in DOMAIN column_boundaries :
                    x * Scale(image_width) > column_boundaries[i]}
    IN  IF hit = {} THEN 0 ELSE SetMax(hit)

\* the loop "for i, boundary in enumerate(column_boundaries)": the index of
\* the last boundary with min_x >= boundary, plus one; 0 if there is none
column_idx(x, column_boundaries, image_width) ==
    LET hit == {i \in DOMAIN column_boundaries :
                    x * Scale(image_width) >= column_boundaries[i]}
    IN  IF hit = {} THEN 0 ELSE SetMax(hit)

\* variant: "break" in place of "continue" at a block without bbox
blocks_with_column_break(blocks, column_boundaries, image_width) ==
    LET bad == {i \in DOMAIN blocks : ~Usable(blocks[i])}
        usable == IF bad = {} THEN blocks ELSE SubSeq(blocks, 1, SetMin(bad) - 1)
    IN  [i \in DOMAIN usable |->
            [block  |-> usable[i],
             column |-> column_idx(min_x(usable[i].bbox), column_boundaries, image_width),
             y      |-> min_y(usable[i].bbox),
             x      |-> min_x(usable[i].bbox)]]

blocks_with_column(blocks, column_boundaries, image_width) ==
    LET usable == SelectSeq(blocks, Usable)
    IN  [i \in DOMAIN usable |->
            [block  |-> usable[i],
             column |-> column_idx(min_x(usable[i].bbox), column_boundaries, image_width),
             y      |-> min_y(usable[i].bbox),
             x      |-> min_x(usable[i].bbox)]]

\* variant: key=lambda b: (b['column'], b['x'], b['y'])
TableKeyXFirst(b) == << b.column, b.x, b.y >>

\* key=lambda b: (b['column'], b['y'], b['x'])
TableKey(b) == << b.column, b.y, b.x >>

\* variant: the column index is stored in the block itself, block['column'] = column_idx
TableSortedAnnotated(blocks, column_boundaries, image_width) ==
    LET assigned == blocks_with_column(blocks, column_boundaries, image_width)
        data == sorted(assigned, [i \in DOMAIN assigned |-> TableKey(assigned[i])])
    IN  [i \in DOMAIN data |->
            [text |-> data[i].block.text, confidence |-> data[i].block.confidence,
             bbox |-> data[i].block.bbox, column |-> data[i].column]]

TableSorted(blocks, column_boundaries, image_width) ==
    LET assigned == blocks_with_column(blocks, column_boundaries, image_width)
        data == sorted(assigned, [i \in DOMAIN assigned |-> TableKey(assigned[i])])
    IN  [i \in DOMAIN data |-> data[i].block]

(***************************************************************************)
(* perform_ocr: the joined text.  A string is a sequence of pieces, a      *)
(* piece being the text of one block or the newline separator.             *)
(***************************************************************************)
NewLine == << "\n" >>

\* variant: ''.join(lines)
JoinNoSeparator(lines) == Flatten(lines)

\* '\n'.join(lines)
RECURSIVE Join(_)
Join(lines) ==
    IF lines = << >> THEN << >>
    ELSE IF Len(lines) = 1 THEN lines[1]
    ELSE lines[1] \o << NewLine >> \o Join(Tail(lines))

\* sorted_text_lines = [block['text'] for block in sorted_blocks]
sorted_text_lines(sorted_blocks) ==
    [i \in DOMAIN sorted_blocks |-> << sorted_blocks[i].text >>]

\* variant: every line, the last one too, is followed by a newline
JoinedTextTrailing(sorted_blocks) ==
    Join(sorted_text_lines(sorted_blocks)) \o << NewLine >>

\* full_text = '\n'.join(sorted_text_lines)
JoinedText(sorted_blocks) == Join(sorted_text_lines(sorted_blocks))

(***************************************************************************)
(* LogCapture: logger.info(...) appends an entry to the deque recent_logs. *)
(* The timestamp of an entry is left out.                                  *)
(***************************************************************************)
LogMaxLen == 100

\* recent_logs.append(log_entry) on deque(maxlen=100)
LogAppend(logs, entry) ==
    IF Len(logs) >= LogMaxLen THEN Append(Tail(logs), entry) ELSE Append(logs, entry)

RECURSIVE LogAll(_, _)
LogAll(logs, entries) ==
    IF entries = << >> THEN logs
    ELSE LogAll(LogAppend(logs, entries[1]), Tail(entries))

\* the entries logged while the module is loaded: initialisation and warmup
StartupLogs ==
    << [level |-> "INFO", message |-> << "Initializing PaddleOCR" >>],
       [level |-> "INFO", message |-> << "PaddleOCR initialized successfully" >>],
       [level |-> "INFO", message |-> << "Warming up PaddleOCR with test image" >>],
       [level |-> "INFO", message |-> << "PaddleOCR warmup complete" >>] >>

\* a buffer that already holds maxlen entries
FullLogs ==
    [i \in 1 .. LogMaxLen |->
        IF i <= Len(StartupLogs) THEN StartupLogs[i]
        ELSE [level |-> "INFO", message |-> << "NEW OCR REQUEST RECEIVED" >>]]

\* logger.info(f"Detected {len(peaks)} table columns at x-positions: {[int(x) for x in peaks]}")
\* is reached only with 2 or more peaks
DetectLogs(peaks, image_width) ==
    IF Len(peaks) >= 2
    THEN << [level |-> "INFO",
             message |-> << "Detected table columns", Len(peaks),
                            [i \in DOMAIN peaks |-> peaks[i] \div Scale(image_width)] >>] >>
    ELSE << >>

\* logger.info("No multi-column table detected, using standard sorting")
FallbackLog ==
    [level |-> "INFO", message |-> << "No multi-column table detected, using standard sorting" >>]

\* logger.info(f"Sorted {len(blocks)} blocks across {len(column_boundaries) + 1} columns (table mode)")
TableLog(blocks, column_boundaries) ==
    [level |-> "INFO",
     message |-> << "Sorted blocks across columns (table mode)", Len(blocks),
                    Len(column_boundaries) + 1 >>]

(***************************************************************************)
(* State: one call of sort_blocks_by_table_columns(blocks, image_width),   *)
(* followed by the join of the texts as in perform_ocr, or one call of     *)
(* detect_table_columns_histogram(blocks, image_width) on its own          *)
(***************************************************************************)
VARIABLES
    blocks,             \* the argument list
    image_width,        \* the argument width
    column_boundaries,  \* what detect_table_columns_histogram returned
    assigned,           \* the local list blocks_with_column (table mode)
    sorted_blocks,      \* the returned list
    full_text,          \* the joined text perform_ocr builds from it
    mode,               \* "none", "detect", "empty", "fallback", "table", "raised"
    pc,                 \* "call", "done"; "idle" while the concurrent requests run
    recent_logs,        \* the global deque LogCapture fills
    req,                \* the locals of each concurrent request, by request
    ocr_ready,          \* the global readiness flag
    ocr_warmup_error,   \* the global message of the last failed warmup, or None
    srv                 \* the locals of each /ready or /ocr handler, by handler

vars == << blocks, image_width, column_boundaries, assigned, sorted_blocks, full_text,
          mode, pc, recent_logs, req, ocr_ready, ocr_warmup_error, srv >>

\* the variables of the single call
call_vars == << blocks, image_width, column_boundaries, assigned, sorted_blocks,
               full_text, mode, pc >>

\* the globals and the handler locals of the server
srv_vars == << ocr_ready, ocr_warmup_error, srv >>

\* ocr_warmup_error = None, and ocr_warmup_error = str(e)
NoError == [is_none |-> TRUE, message |-> << >>]

ErrorOf(e) == [is_none |-> FALSE, message |-> e.message]

\* no exception
NoException == [type |-> "None", message |-> << >>]

\* result = None
NoneResult == [is_none |-> TRUE, page |-> << >>]

\* the locals of a handler at the entry of its request rq
HandlerAt(rq, at) ==
    [kind |-> rq.kind, body |-> rq.body, pc |-> at,
     warmup_result |-> "unset", e |-> NoException,
     attempt |-> 0, retry_delay |-> 0, sleeps |-> << >>, engine_calls |-> << >>,
     result |-> NoneResult, responses |-> << >>]

\* the handler returns response: its locals are gone
Returned(l, response) ==
    [HandlerAt([kind |-> l.kind, body |-> l.body], "done")
        EXCEPT !.responses = Append(l.responses, response)]

\* the locals of a handler while no request is served
IdleHandler == HandlerAt([kind |-> "ready", body |-> "none"], "idle")

\* the locals of a request that has not been given anything to sort
IdleRequest ==
    [blocks |-> << >>, image_width |-> 400, column_boundaries |-> << >>,
     sorted_blocks |-> << >>, mode |-> "none", pc |-> "idle"]

Init ==
    /\ \/ blocks \in BlockLists /\ image_width \in Widths
       \/ blocks \in TwoColumnLists /\ image_width \in TwoColumnWidths
       \/ blocks \in SingleColumnLists /\ image_width \in SingleColumnWidths
       \/ blocks \in TieLists /\ image_width \in TieWidths
       \/ blocks \in MergeLists /\ image_width \in MergeWidths
    /\ column_boundaries = << >>
    /\ assigned = << >>
    /\ sorted_blocks = << >>
    /\ full_text = << >>
    /\ mode = "none"
    /\ pc = "call"
    /\ recent_logs = StartupLogs
    /\ req = [r \in Requests |-> IdleRequest]
    /\ ocr_ready = TRUE
    /\ ocr_warmup_error = NoError
    /\ srv = [h \in Handlers |-> IdleHandler]

\* a call of detect_table_columns_histogram alone
DetectOnly ==
    /\ pc = "call"
    /\ column_boundaries' = detect_table_columns_histogram(blocks, image_width)
    /\ recent_logs' = LogAll(recent_logs, DetectLogs(column_boundaries', image_width))
    /\ mode' = "detect"
    /\ pc' = "done"
    /\ UNCHANGED << blocks, image_width, assigned, sorted_blocks, full_text, req,
                    srv_vars >>

\* "if not blocks or len(blocks) == 0: return blocks"
ReturnEmpty ==
    /\ pc = "call"
    /\ Len(blocks) = 0
    /\ sorted_blocks' = blocks
    /\ full_text' = JoinedText(sorted_blocks')
    /\ mode' = "empty"
    /\ pc' = "done"
    /\ UNCHANGED << blocks, image_width, column_boundaries, assigned, recent_logs, req,
                    srv_vars >>

\* fewer than 2 boundaries: sorted(blocks, key=first bbox point)
SortFallback ==
    /\ pc = "call"
    /\ Len(blocks) > 0
    /\ column_boundaries' = detect_table_columns_histogram(blocks, image_width)
    /\ Len(column_boundaries') < 2
    /\ ~FallbackRaises(blocks)
    /\ recent_logs' = LogAppend(recent_logs, FallbackLog)
    /\ sorted_blocks' = FallbackSorted(blocks)
    /\ full_text' = JoinedText(sorted_blocks')
    /\ mode' = "fallback"
    /\ pc' = "done"
    /\ UNCHANGED << blocks, image_width, assigned, req, srv_vars >>

\* fewer than 2 boundaries and a block with an empty bbox: after the log entry
\* the sort key raises IndexError and nothing is returned
SortFallbackRaise ==
    /\ pc = "call"
    /\ Len(blocks) > 0
    /\ column_boundaries' = detect_table_columns_histogram(blocks, image_width)
    /\ Len(column_boundaries') < 2
    /\ FallbackRaises(blocks)
    /\ recent_logs' = LogAppend(recent_logs, FallbackLog)
    /\ mode' = "raised"
    /\ pc' = "done"
    /\ UNCHANGED << blocks, image_width, assigned, sorted_blocks, full_text, req,
                    srv_vars >>

\* at least 2 boundaries: assign columns, sort by (column, y, x)
SortTable ==
    /\ pc = "call"
    /\ Len(blocks) > 0
    /\ column_boundaries' = detect_table_columns_histogram(blocks, image_width)
    /\ Len(column_boundaries') >= 2
    /\ assigned' = blocks_with_column(blocks, column_boundaries', image_width)
    /\ sorted_blocks' = TableSorted(blocks, column_boundaries', image_width)
    /\ full_text' = JoinedText(sorted_blocks')
    /\ recent_logs' = LogAll(recent_logs,
                             DetectLogs(column_boundaries', image_width)
                                \o << TableLog(blocks, column_boundaries') >>)
    /\ mode' = "table"
    /\ pc' = "done"
    /\ UNCHANGED << blocks, image_width, req, srv_vars >>

Next == DetectOnly \/ ReturnEmpty \/ SortFallback \/ SortFallbackRaise \/ SortTable

Spec == Init /\ [][Next]_vars

TypeOK ==
    /\ \A i \in DOMAIN blocks : DOMAIN blocks[i] = {"text", "confidence", "bbox"}
    /\ image_width \in Widths \cup TwoColumnWidths \cup SingleColumnWidths \cup TieWidths
    /\ mode \in {"none", "detect", "empty", "fallback", "table", "raised"}
    /\ pc \in {"call", "done", "idle"}
    /\ Len(recent_logs) <= LogMaxLen
    /\ DOMAIN req = Requests

(***************************************************************************)
(* Concurrent requests: the server is started with app.run(...), which     *)
(* serves each request in a thread of its own.  Each request r runs        *)
(* sort_blocks_by_table_columns on its own blocks; blocks, image_width,    *)
(* column_boundaries and the returned list are locals of the call, kept in *)
(* req[r].  A step ends with at most one access to shared state, the       *)
(* append to recent_logs.                                                  *)
(***************************************************************************)
InitConc ==
    /\ blocks = << >>
    /\ image_width = 400
    /\ column_boundaries = << >>
    /\ assigned = << >>
    /\ sorted_blocks = << >>
    /\ full_text = << >>
    /\ mode = "none"
    /\ pc = "idle"
    /\ recent_logs \in {StartupLogs, FullLogs}
    /\ req \in [Requests ->
                  { [blocks |-> l, image_width |-> w, column_boundaries |-> << >>,
                     sorted_blocks |-> << >>, mode |-> "none", pc |-> "call"] :
                    l \in ConcLists, w \in ConcWidths }]
    /\ ocr_ready = TRUE
    /\ ocr_warmup_error = NoError
    /\ srv = [h \in Handlers |-> IdleHandler]

\* if not blocks: return blocks
ConcReturnEmpty(r) ==
    /\ req[r].pc = "call"
    /\ Len(req[r].blocks) = 0
    /\ req' = [req EXCEPT ![r].sorted_blocks = req[r].blocks,
                          ![r].mode = "empty",
                          ![r].pc = "done"]
    /\ UNCHANGED << call_vars, recent_logs, srv_vars >>

\* a variant that keeps column_boundaries in a module-level global, which
\* every request reads
ConcDetectShared(r) ==
    /\ req[r].pc = "call"
    /\ Len(req[r].blocks) > 0
    /\ LET peaks == detect_table_columns_histogram(req[r].blocks, req[r].image_width)
       IN /\ req' = [q \in Requests |->
                        IF q = r
                        THEN [req[q] EXCEPT !.column_boundaries = peaks, !.pc = "detected"]
                        ELSE [req[q] EXCEPT !.column_boundaries = peaks]]
          /\ recent_logs' = LogAll(recent_logs, DetectLogs(peaks, req[r].image_width))
    /\ UNCHANGED << call_vars, srv_vars >>

\* column_boundaries = detect_table_columns_histogram(blocks, image_width)
ConcDetect(r) ==
    /\ req[r].pc = "call"
    /\ Len(req[r].blocks) > 0
    /\ LET peaks == detect_table_columns_histogram(req[r].blocks, req[r].image_width)
       IN /\ req' = [req EXCEPT ![r].column_boundaries = peaks, ![r].pc = "detected"]
          /\ recent_logs' = LogAll(recent_logs, DetectLogs(peaks, req[r].image_width))
    /\ UNCHANGED << call_vars, srv_vars >>

\* fewer than 2 boundaries: the log entry, then the sort on (y, x)
ConcFallback(r) ==
    /\ req[r].pc = "detected"
    /\ Len(req[r].column_boundaries) < 2
    /\ ~FallbackRaises(req[r].blocks)
    /\ recent_logs' = LogAppend(recent_logs, FallbackLog)
    /\ req' = [req EXCEPT ![r].sorted_blocks = FallbackSorted(req[r].blocks),
                          ![r].mode = "fallback",
                          ![r].pc = "done"]
    /\ UNCHANGED << call_vars, srv_vars >>

\* fewer than 2 boundaries and a block with an empty bbox: the log entry,
\* then the sort key raises IndexError
ConcFallbackRaise(r) ==
    /\ req[r].pc = "detected"
    /\ Len(req[r].column_boundaries) < 2
    /\ FallbackRaises(req[r].blocks)
    /\ recent_logs' = LogAppend(recent_logs, FallbackLog)
    /\ req' = [req EXCEPT ![r].mode = "raised", ![r].pc = "done"]
    /\ UNCHANGED << call_vars, srv_vars >>

\* 2 or more boundaries: column assignment, the sort on (y, column, x), then
\* the log entry
ConcTable(r) ==
    /\ req[r].pc = "detected"
    /\ Len(req[r].column_boundaries) >= 2
    /\ req' = [req EXCEPT ![r].sorted_blocks =
                              TableSorted(req[r].blocks, req[r].column_boundaries,
                                          req[r].image_width),
                          ![r].mode = "table",
                          ![r].pc = "done"]
    /\ recent_logs' = LogAppend(recent_logs,
                                TableLog(req[r].blocks, req[r].column_boundaries))
    /\ UNCHANGED << call_vars, srv_vars >>

NextConc ==
    \E r \in Requests :
        \/ ConcReturnEmpty(r)
        \/ ConcDetect(r)
        \/ ConcFallback(r)
        \/ ConcFallbackRaise(r)
        \/ ConcTable(r)

SpecConc == InitConc /\ [][NextConc]_vars

\* what the call returns for blocks when no other request runs: "empty",
\* "fallback", "table" or "raised", and the returned list
AloneMode(bs, w) ==
    IF Len(bs) = 0 THEN "empty"
    ELSE IF Len(detect_table_columns_histogram(bs, w)) >= 2 THEN "table"
    ELSE IF FallbackRaises(bs) THEN "raised"
    ELSE "fallback"

AloneResult(bs, w) ==
    IF Len(bs) = 0 THEN bs
    ELSE LET peaks == detect_table_columns_histogram(bs, w)
         IN IF Len(peaks) >= 2 THEN TableSorted(bs, peaks, w)
            ELSE IF FallbackRaises(bs) THEN << >>
            ELSE FallbackSorted(bs)

(***************************************************************************)
(* The server: GET /ready and POST /ocr, each request served in a thread   *)
(* of its own.  ocr_ready and ocr_warmup_error are module globals that     *)
(* warmup_ocr writes and the handlers read; everything else is local to    *)
(* the handler and kept in srv[h].  A step ends with at most one access to *)
(* a global.  The entries the handlers log are left out: no handler reads  *)
(* recent_logs.                                                            *)
(***************************************************************************)
max_retries == 3

InitialRetryDelay == 1

BackoffFactor == 2

\* the module is loaded: ocr_ready = False, ocr_warmup_error = None, then
\* warmup_ocr() has run once and either succeeded or failed
InitServer ==
    /\ blocks = << >>
    /\ image_width = 400
    /\ column_boundaries = << >>
    /\ assigned = << >>
    /\ sorted_blocks = << >>
    /\ full_text = << >>
    /\ mode = "none"
    /\ pc = "idle"
    /\ recent_logs = StartupLogs
    /\ req = [r \in Requests |-> IdleRequest]
    /\ \/ ocr_ready = TRUE /\ ocr_warmup_error = NoError
       \/ ocr_ready = FALSE /\ ocr_warmup_error \in {ErrorOf(e) : e \in EngineFailures}
    /\ \E f \in RequestAssignments :
          srv = [h \in Handlers |-> HandlerAt(RequestKinds[f[h]], "start")]

\* "x in message"
Contains(message, piece) == \E i \in DOMAIN message : << message[i] >> = piece

\* jsonify({...}), status
Response(status, body) == [status |-> status, body |-> body]

\* get_error_hint(error_type, error_msg)
get_error_hint(error_type, error_msg) ==
    IF Contains(error_msg, PrimitiveMessage) THEN "PaddlePaddle runtime error"
    ELSE IF Contains(error_msg, << "out of memory" >>) THEN "Container ran out of memory"
    ELSE IF Contains(error_msg, << "timeout" >>) THEN "Processing timeout"
    ELSE error_type

\* the outer "except Exception as e" of perform_ocr
ErrorResponse(e) ==
    Response(500, [error |-> e.message, error_type |-> e.type, traceback |-> e.type,
                   hint |-> get_error_hint(e.type, e.message)])

\* the body of the 200 of /ready
ReadyBody == [status |-> "ready", service |-> "PaddleOCR"]

\* variant: /ready answers 200 whatever warmup_ocr() returned
ReadyResponseAlways(warmup_result, error) == Response(200, ReadyBody)

\* "if warmup_ocr(): return ready, 200  else: return not_ready, 503"
ReadyResponse(warmup_result, error) ==
    IF warmup_result = "True" THEN Response(200, ReadyBody)
    ELSE Response(503, [status |-> "not_ready", service |-> "PaddleOCR", error |-> error])

\* "if ocr_ready: return ready, 200", else warmup_ocr() is called
ReadyEnter(h) ==
    /\ srv[h].pc = "start"
    /\ srv[h].kind = "ready"
    /\ srv' = [srv EXCEPT ![h] =
                 IF ocr_ready
                 THEN Returned(@, Response(200, ReadyBody))
                 ELSE [@ EXCEPT !.pc = "warmup"]]
    /\ UNCHANGED << call_vars, recent_logs, req, ocr_ready, ocr_warmup_error >>

\* "if not ocr_ready:" warmup_ocr() is called, else the body is read
OcrEnter(h) ==
    /\ srv[h].pc = "start"
    /\ srv[h].kind = "ocr"
    /\ srv' = [srv EXCEPT ![h].pc = IF ocr_ready THEN "body" ELSE "warmup"]
    /\ UNCHANGED << call_vars, recent_logs, req, ocr_ready, ocr_warmup_error >>

\* warmup_ocr: the test inference returns, "ocr_ready = True"
WarmupSucceed(h) ==
    /\ srv[h].pc = "warmup"
    /\ ocr_ready' = TRUE
    /\ srv' = [srv EXCEPT ![h].pc = "warm_ok"]
    /\ UNCHANGED << call_vars, recent_logs, req, ocr_warmup_error >>

\* warmup_ocr: "ocr_warmup_error = None", "return True"
WarmupClearError(h) ==
    /\ srv[h].pc = "warm_ok"
    /\ ocr_warmup_error' = NoError
    /\ srv' = [srv EXCEPT ![h].warmup_result = "True", ![h].pc = "warmed"]
    /\ UNCHANGED << call_vars, recent_logs, req, ocr_ready >>

\* warmup_ocr: the test inference raises e, "ocr_ready = False"
WarmupRaise(h) ==
    /\ srv[h].pc = "warmup"
    /\ \E e \in EngineFailures :
          srv' = [srv EXCEPT ![h].e = e, ![h].pc = "warm_fail"]
    /\ ocr_ready' = FALSE
    /\ UNCHANGED << call_vars, recent_logs, req, ocr_warmup_error >>

\* warmup_ocr: "ocr_warmup_error = str(e)", "return False"
WarmupSetError(h) ==
    /\ srv[h].pc = "warm_fail"
    /\ ocr_warmup_error' = ErrorOf(srv[h].e)
    /\ srv' = [srv EXCEPT ![h].warmup_result = "False", ![h].pc = "warmed"]
    /\ UNCHANGED << call_vars, recent_logs, req, ocr_ready >>

\* /ready after warmup_ocr() returned; 'error': ocr_warmup_error reads the global
ReadyRespond(h) ==
    /\ srv[h].pc = "warmed"
    /\ srv[h].kind = "ready"
    /\ srv' = [srv EXCEPT ![h] =
                 Returned(@, ReadyResponse(srv[h].warmup_result, ocr_warmup_error))]
    /\ UNCHANGED << call_vars, recent_logs, req, ocr_ready, ocr_warmup_error >>

\* /ocr after warmup_ocr() returned: 503 'not_ready' if it returned False, the
\* message extended by ocr_warmup_error if that is set
OcrAfterWarmup(h) ==
    /\ srv[h].pc = "warmed"
    /\ srv[h].kind = "ocr"
    /\ srv' = [srv EXCEPT ![h] =
                 IF srv[h].warmup_result = "True"
                 THEN [@ EXCEPT !.pc = "body"]
                 ELSE Returned(@, Response(503,
                                     [error |-> << "PaddleOCR is not ready" >>
                                                   \o ocr_warmup_error.message,
                                      status |-> "not_ready",
                                      hint |-> "Wait 10-30 seconds"]))]
    /\ UNCHANGED << call_vars, recent_logs, req, ocr_ready, ocr_warmup_error >>

\* request.get_json() up to the start of the retry loop: 400 without 'image',
\* an exception of b64decode or Image.open is answered 500 by the outer except
OcrReadBody(h) ==
    /\ srv[h].pc = "body"
    /\ srv' = [srv EXCEPT ![h] =
                 CASE srv[h].body = "no_image" ->
                        Returned(@, Response(400, [error |-> << "No image data provided" >>]))
                   [] srv[h].body = "bad_image" ->
                        Returned(@, ErrorResponse(
                                        [type |-> "UnidentifiedImageError",
                                         message |-> << "cannot identify image file" >>]))
                   [] OTHER ->
                        [@ EXCEPT !.attempt = 0, !.retry_delay = InitialRetryDelay,
                                  !.result = NoneResult, !.pc = "attempt"]]
    /\ UNCHANGED << call_vars, recent_logs, req, ocr_ready, ocr_warmup_error >>

\* variant: the delay is doubled before the sleep
AfterBackoffDoubledFirst(l) ==
    IF l.attempt > 0
    THEN [l EXCEPT !.sleeps = Append(@, l.retry_delay * BackoffFactor),
                   !.retry_delay = @ * BackoffFactor]
    ELSE l

\* "if attempt > 0: time.sleep(retry_delay); retry_delay *= 2"
AfterBackoff(l) ==
    IF l.attempt > 0
    THEN [l EXCEPT !.sleeps = Append(@, l.retry_delay), !.retry_delay = @ * BackoffFactor]
    ELSE l

\* the locals after ocr.ocr(image_np, cls=True) was called and raised e
\* (NoException if it returned)
AfterCall(l, e) == [l EXCEPT !.engine_calls = Append(@, e)]

\* variant: every RuntimeError is retried
RetryableAnyRuntimeError(e) == e.type = "RuntimeError"

\* "except RuntimeError as e: if 'could not execute a primitive' in error_msg"
Retryable(e) == e.type = "RuntimeError" /\ Contains(e.message, PrimitiveMessage)

\* an attempt whose engine call returns: "break"
AttemptReturn(h) ==
    /\ srv[h].pc = "attempt"
    /\ \E r \in EngineResults :
          srv' = [srv EXCEPT ![h] =
                     [AfterCall(AfterBackoff(@), NoException)
                        EXCEPT !.result = r, !.pc = "transform"]]
    /\ UNCHANGED << call_vars, recent_logs, req, ocr_ready, ocr_warmup_error >>

\* an attempt that raises the retryable error before the last attempt: "continue"
AttemptRetry(h) ==
    /\ srv[h].pc = "attempt"
    /\ srv[h].attempt < max_retries - 1
    /\ \E e \in EngineFailures :
          /\ Retryable(e)
          /\ srv' = [srv EXCEPT ![h] =
                        [AfterCall(AfterBackoff(@), e) EXCEPT !.attempt = @ + 1]]
    /\ UNCHANGED << call_vars, recent_logs, req, ocr_ready, ocr_warmup_error >>

\* an attempt that raises the retryable error on the last attempt, another
\* RuntimeError or another exception: "raise", answered 500 by the outer except
AttemptRaise(h) ==
    /\ srv[h].pc = "attempt"
    /\ \E e \in EngineFailures :
          /\ ~(Retryable(e) /\ srv[h].attempt < max_retries - 1)
          /\ srv' = [srv EXCEPT ![h] =
                        Returned(AfterCall(AfterBackoff(@), e), ErrorResponse(e))]
    /\ UNCHANGED << call_vars, recent_logs, req, ocr_ready, ocr_warmup_error >>

\* variant: the "if result is None: raise" test left out
TransformResponseNoCheck(result) ==
    IF AloneMode(result.page, RequestWidth) = "raised"
    THEN ErrorResponse([type |-> "IndexError", message |-> << "list index out of range" >>])
    ELSE Response(200, [text |-> JoinedText(AloneResult(result.page, RequestWidth)),
                        blocks |-> AloneResult(result.page, RequestWidth)])

\* after the loop: "if result is None: raise RuntimeError(...)", the blocks of
\* the first page, sort_blocks_by_table_columns, the joined text and the 200;
\* an exception is answered 500 by the outer except
TransformResponse(result) ==
    IF result.is_none
    THEN ErrorResponse([type |-> "RuntimeError",
                        message |-> << "PaddleOCR failed to produce a result after all retries" >>])
    ELSE IF AloneMode(result.page, RequestWidth) = "raised"
    THEN ErrorResponse([type |-> "IndexError", message |-> << "list index out of range" >>])
    ELSE Response(200, [text |-> JoinedText(AloneResult(result.page, RequestWidth)),
                        blocks |-> AloneResult(result.page, RequestWidth)])

Transform(h) ==
    /\ srv[h].pc = "transform"
    /\ srv' = [srv EXCEPT ![h] = Returned(@, TransformResponse(srv[h].result))]
    /\ UNCHANGED << call_vars, recent_logs, req, ocr_ready, ocr_warmup_error >>

NextServer ==
    \E h \in Handlers :
        \/ ReadyEnter(h)
        \/ OcrEnter(h)
        \/ WarmupSucceed(h)
        \/ WarmupClearError(h)
        \/ WarmupRaise(h)
        \/ WarmupSetError(h)
        \/ ReadyRespond(h)
        \/ OcrAfterWarmup(h)
        \/ OcrReadBody(h)
        \/ AttemptReturn(h)
        \/ AttemptRetry(h)
        \/ AttemptRaise(h)
        \/ Transform(h)

SpecServer == InitServer /\ [][NextServer]_vars

(***************************************************************************)
(* Vocabulary of the properties                                            *)
(***************************************************************************)
top_y(b) == min_y(b.bbox)

left_x(b) == min_x(b.bbox)

UsableBlocks == SelectSeq(blocks, Usable)

\* how often e occurs in seq
Count(seq, e) == Cardinality({i \in DOMAIN seq : seq[i] = e})

SameMultiset(s, t) ==
    /\ Len(s) = Len(t)
    /\ \A i \in DOMAIN s : Count(s, s[i]) = Count(t, s[i])

\* the number of returned boundaries that are <= the block's left edge
BoundariesAtOrLeft(x) ==
    Cardinality({i \in DOMAIN column_boundaries :
                    column_boundaries[i] <= x * Scale(image_width)})

\* seq is ascending under the key K: no later element has a smaller key
Ascending(keys) ==
    \A i, j \in DOMAIN keys : i < j => ~TupleLess(keys[j], keys[i])

TwoColumnCall == blocks \in TwoColumnLists /\ image_width \in TwoColumnWidths

SingleColumnCall == blocks \in SingleColumnLists /\ image_width \in SingleColumnWidths

(***************************************************************************)
(* C1: in table mode the returned blocks are in ascending order of         *)
(* (column index, top_y, left_x), the column index of a block being the    *)
(* number of boundaries at or left of its left edge: columns come left to  *)
(* right, and inside a column blocks come top to bottom, ties by left_x.   *)
(***************************************************************************)
C1_TableOrder ==
    mode = "table" =>
        Ascending([i \in DOMAIN sorted_blocks |->
                     << BoundariesAtOrLeft(left_x(sorted_blocks[i])),
                        top_y(sorted_blocks[i]),
                        left_x(sorted_blocks[i]) >>])

\* a table-mode call that had to reorder its input, with two blocks of one
\* column at different heights and two blocks of different columns
C1_Witness ==
    /\ mode = "table"
    /\ sorted_blocks # UsableBlocks
    /\ \E i, j \in DOMAIN sorted_blocks :
          /\ BoundariesAtOrLeft(left_x(sorted_blocks[i]))
                = BoundariesAtOrLeft(left_x(sorted_blocks[j]))
          /\ top_y(sorted_blocks[i]) < top_y(sorted_blocks[j])
          /\ left_x(sorted_blocks[i]) > left_x(sorted_blocks[j])
    /\ \E i, j \in DOMAIN sorted_blocks :
          BoundariesAtOrLeft(left_x(sorted_blocks[i]))
             # BoundariesAtOrLeft(left_x(sorted_blocks[j]))

(***************************************************************************)
(* C2: in fallback mode the returned blocks are in ascending order of      *)
(* (top_y, left_x), top_y and left_x being the minimum y and the minimum x *)
(* over all bbox points, whatever the order the points are listed in.      *)
(***************************************************************************)
C2_FallbackOrderByMin ==
    mode = "fallback" =>
        Ascending([i \in DOMAIN sorted_blocks |->
                     << top_y(sorted_blocks[i]), left_x(sorted_blocks[i]) >>])

(***************************************************************************)
(* C3: when every block has a non-empty bbox and the fallback path is      *)
(* taken, the returned list is a permutation of the input list: the same   *)
(* blocks with the same multiplicities.                                    *)
(***************************************************************************)
C3_FallbackPermutation ==
    (mode = "fallback" /\ \A i \in DOMAIN blocks : Usable(blocks[i]))
        => SameMultiset(sorted_blocks, blocks)

\* a fallback call that reordered a list holding the same block twice
C3_Witness ==
    /\ mode = "fallback"
    /\ \A i \in DOMAIN blocks : Usable(blocks[i])
    /\ sorted_blocks # blocks
    /\ \E i, j \in DOMAIN blocks : i # j /\ blocks[i] = blocks[j]

(***************************************************************************)
(* C4: in table mode the returned list holds every input block with a      *)
(* non-empty bbox exactly as often as the input does, and no block with an *)
(* empty bbox: exactly the unusable blocks are dropped.                    *)
(***************************************************************************)
C4_TableDropsExactlyUnusable ==
    mode = "table" =>
        /\ SameMultiset(sorted_blocks, UsableBlocks)
        /\ \A i \in DOMAIN sorted_blocks : Usable(sorted_blocks[i])

\* a table-mode call whose input has an unusable block followed by a usable one
C4_Witness ==
    /\ mode = "table"
    /\ \E i, j \in DOMAIN blocks :
          i < j /\ ~Usable(blocks[i]) /\ Usable(blocks[j])
    /\ Len(sorted_blocks) < Len(blocks)

(***************************************************************************)
(* C5 (as stated): for the two-column input and image_width 500 the        *)
(* detector returns exactly one boundary, near x = 155 (within one 25      *)
(* pixel bin of it).                                                       *)
(***************************************************************************)
C5_OneBoundaryNear155 ==
    (TwoColumnCall /\ pc = "done") =>
        /\ Len(column_boundaries) = 1
        /\ column_boundaries[1] >= (155 - 25) * Scale(image_width)
        /\ column_boundaries[1] <= (155 + 25) * Scale(image_width)

(***************************************************************************)
(* C5 (amended): for the two-column input and image_width 500 the detector *)
(* returns the empty sequence: the only candidate peak is the bin of the   *)
(* right cluster, with midpoint 312.5, because the left cluster lies in    *)
(* the first bin, which is not scanned; one peak gives no boundary.        *)
(***************************************************************************)
C5_TwoColumnNoBoundary ==
    (TwoColumnCall /\ pc = "done") =>
        /\ column_boundaries = << >>
        /\ candidate_peaks(blocks, image_width) = << 625 * 20 >>
        /\ Scale(image_width) = 40

\* the two-column call has returned, its left group listed after its right one
C5_Witness ==
    /\ TwoColumnCall
    /\ pc = "done"
    /\ blocks[1] = RightBlock(0)
    /\ blocks[10] = LeftBlock(4)

(***************************************************************************)
(* C6: for the two-column input and image_width 500 the returned list has  *)
(* all five left-edge-10 blocks before all five left-edge-300 blocks, each *)
(* group in ascending top_y order.                                         *)
(***************************************************************************)
C6_LeftGroupBeforeRightGroup ==
    (TwoColumnCall /\ pc = "done" /\ mode # "detect") =>
        /\ Len(sorted_blocks) = 10
        /\ \A i, j \in DOMAIN sorted_blocks :
              (left_x(sorted_blocks[i]) = 10 /\ left_x(sorted_blocks[j]) = 300) => i < j
        /\ \A i, j \in DOMAIN sorted_blocks :
              (i < j /\ left_x(sorted_blocks[i]) = left_x(sorted_blocks[j]))
                 => top_y(sorted_blocks[i]) < top_y(sorted_blocks[j])

(***************************************************************************)
(* C7: the boundaries the detector returns are strictly ascending and any  *)
(* two consecutive boundaries are more than 50 pixels apart.               *)
(***************************************************************************)
C7_BoundariesSeparated ==
    pc = "done" =>
        \A i \in DOMAIN column_boundaries :
            i + 1 \in DOMAIN column_boundaries =>
                /\ column_boundaries[i] < column_boundaries[i + 1]
                /\ column_boundaries[i + 1] - column_boundaries[i]
                      > 50 * Scale(image_width)

\* boundaries were returned after the merge step had discarded a candidate
C7_Witness ==
    /\ pc = "done"
    /\ Len(column_boundaries) >= 2
    /\ Len(candidate_peaks(blocks, image_width)) > Len(column_boundaries)

(***************************************************************************)
(* C8: the detector never returns exactly one boundary; a single peak      *)
(* left after merging gives the empty result.                              *)
(***************************************************************************)
C8_NeverOneBoundary == pc = "done" => Len(column_boundaries) # 1

\* at least 5 left edges, exactly one peak survives the merge, result empty
C8_Witness ==
    /\ pc = "done"
    /\ Len(x_coords(blocks)) >= 5
    /\ Len(merged_peaks(candidate_peaks(blocks, image_width), image_width)) = 1
    /\ column_boundaries = << >>

(***************************************************************************)
(* C9: in table mode, with N boundaries, the column index given to a block *)
(* is the number of boundaries <= its left_x; it lies in 0..N, is 0 for a  *)
(* block left of the first boundary and N for a block at or past the last. *)
(***************************************************************************)
C9_ColumnIndexIsCount ==
    mode = "table" =>
        LET N == Len(column_boundaries)
            S == Scale(image_width)
        IN  \A i \in DOMAIN assigned :
               /\ assigned[i].column = BoundariesAtOrLeft(assigned[i].x)
               /\ assigned[i].column \in 0 .. N
               /\ assigned[i].x = left_x(assigned[i].block)
               /\ assigned[i].x * S < column_boundaries[1] => assigned[i].column = 0
               /\ assigned[i].x * S >= column_boundaries[N] => assigned[i].column = N

\* a table-mode call with a block in column 0, a block in the last column and
\* a block whose left edge is exactly on a boundary
C9_Witness ==
    /\ mode = "table"
    /\ \E i \in DOMAIN assigned : assigned[i].column = 0
    /\ \E i \in DOMAIN assigned : assigned[i].column = Len(column_boundaries)
    /\ \E i \in DOMAIN assigned : \E k \in DOMAIN column_boundaries :
          assigned[i].x * Scale(image_width) = column_boundaries[k]

(***************************************************************************)
(* C10: whenever fewer than 5 input blocks have a non-empty bbox the       *)
(* detector returns the empty sequence, wherever the blocks lie and        *)
(* whatever image_width is.                                                *)
(***************************************************************************)
C10_FewUsableNoBoundary ==
    (pc = "done" /\ Len(UsableBlocks) < 5) => column_boundaries = << >>

\* 5 or more blocks of which exactly 4 are usable, their left edges in two
\* different bins
C10_Witness ==
    /\ pc = "done"
    /\ mode # "empty"
    /\ Len(blocks) >= 5
    /\ Len(UsableBlocks) = 4
    /\ \E i, j \in DOMAIN UsableBlocks :
          BinIndex(left_x(UsableBlocks[i]), image_width)
             # BinIndex(left_x(UsableBlocks[j]), image_width)

(***************************************************************************)
(* C11: for 6 blocks whose left edges all lie within a 10 pixel range the  *)
(* detector returns the empty sequence, also when the range straddles a    *)
(* histogram bin edge.                                                     *)
(***************************************************************************)
C11_SingleColumnNoBoundary ==
    (SingleColumnCall /\ pc = "done") =>
        /\ \A i, j \in DOMAIN blocks : left_x(blocks[i]) - left_x(blocks[j]) <= 10
        /\ column_boundaries = << >>

\* the left edges fell into different bins and gave two candidate peaks
C11_Witness ==
    /\ SingleColumnCall
    /\ pc = "done"
    /\ Len(candidate_peaks(blocks, image_width)) >= 2
    /\ \E i, j \in DOMAIN blocks :
          BinIndex(left_x(blocks[i]), image_width) # BinIndex(left_x(blocks[j]), image_width)

\* the elements of seq that are in S, in the order of seq
Restrict(seq, S) == SelectSeq(seq, LAMBDA e : e \in S)

\* a call of sort_blocks_by_table_columns on a non-empty list has ended
SortCallEnded == pc = "done" /\ mode # "detect" /\ Len(blocks) > 0

(***************************************************************************)
(* C12: sort_blocks_by_table_columns uses the table-mode ordering exactly  *)
(* when the detector returns at least 2 boundaries for the same blocks and *)
(* width; in every other case it uses the fallback ordering and raises no  *)
(* error.                                                                  *)
(***************************************************************************)
C12_TableIffTwoBoundaries ==
    SortCallEnded =>
        LET b == detect_table_columns_histogram(blocks, image_width)
        IN  /\ mode = "table" <=> Len(b) >= 2
            /\ Len(b) < 2 => mode = "fallback"

(***************************************************************************)
(* C14: on the fallback path a block whose bbox is missing or empty is     *)
(* retained: the returned list still holds every input block.              *)
(***************************************************************************)
C14_FallbackRetainsUnusable ==
    (SortCallEnded /\ Len(column_boundaries) < 2) =>
        /\ mode = "fallback"
        /\ SameMultiset(sorted_blocks, blocks)

(***************************************************************************)
(* C15: neither detect_table_columns_histogram nor                         *)
(* sort_blocks_by_table_columns raises, whatever the blocks look like; an  *)
(* ordering is always returned.                                            *)
(***************************************************************************)
C15_NeverRaises == pc = "done" => mode # "raised"

(***************************************************************************)
(* C13: in fallback and in table mode two blocks with identical sort keys  *)
(* (the same top_y and left_x, hence in table mode the same column) appear *)
(* in the returned list in the same relative order as in the input.        *)
(***************************************************************************)
C13_StableTieBreak ==
    (pc = "done" /\ mode \in {"fallback", "table"}) =>
        \A i, j \in DOMAIN blocks :
            ( /\ Usable(blocks[i]) /\ Usable(blocks[j])
              /\ top_y(blocks[i]) = top_y(blocks[j])
              /\ left_x(blocks[i]) = left_x(blocks[j]) )
            => Restrict(sorted_blocks, {blocks[i], blocks[j]})
                  = Restrict(blocks, {blocks[i], blocks[j]})

(***************************************************************************)
(* C19: the fallback is idempotent: when the input is already in ascending *)
(* (top_y, left_x) order and the fallback path is taken, the returned list *)
(* is the input list in the identical order, and sorting the returned list *)
(* again changes nothing.                                                  *)
(***************************************************************************)
C19_FallbackIdempotent ==
    mode = "fallback" =>
        /\ Ascending([i \in DOMAIN blocks |-> << top_y(blocks[i]), left_x(blocks[i]) >>])
              => sorted_blocks = blocks
        /\ FallbackSorted(sorted_blocks) = sorted_blocks

\* text.split('\n'): the lines of a string
RECURSIVE SplitLines(_)
SplitLines(t) ==
    LET nl == {k \in DOMAIN t : t[k] = NewLine}
    IN  IF nl = {} THEN << t >>
        ELSE << SubSeq(t, 1, SetMin(nl) - 1) >>
                \o SplitLines(SubSeq(t, SetMin(nl) + 1, Len(t)))

\* a call of sort_blocks_by_table_columns has returned a list
SortReturned == pc = "done" /\ mode \in {"empty", "fallback", "table"}

(***************************************************************************)
(* C16: for an empty block list the detector returns an empty sequence,    *)
(* the sequencer returns an empty list, the joined text is the empty       *)
(* string, and no error is raised.                                         *)
(***************************************************************************)
C16_EmptyInput ==
    (pc = "done" /\ blocks = << >>) =>
        /\ column_boundaries = << >>
        /\ mode \in {"detect", "empty"}
        /\ mode = "empty" => (sorted_blocks = << >> /\ full_text = << >>)

\* the sequencer and the join have run on the empty list
C16_Witness == pc = "done" /\ blocks = << >> /\ mode = "empty"

(***************************************************************************)
(* C17: the joined text is the texts of the returned blocks, in the        *)
(* returned order, with a single newline between consecutive blocks: its   *)
(* i-th line is the text of the i-th returned block.                       *)
(***************************************************************************)
C17_JoinedTextFollowsOrder ==
    SortReturned =>
        LET n == Len(sorted_blocks)
        IN  /\ n = 0 => full_text = << >>
            /\ n > 0 => /\ SplitLines(full_text)
                              = [i \in 1 .. n |-> << sorted_blocks[i].text >>]
                        /\ Len(full_text) = 2 * n - 1

\* a table-mode call that reordered its input and joined several texts
C17_Witness ==
    /\ mode = "table"
    /\ sorted_blocks # UsableBlocks
    /\ Len(SplitLines(full_text)) >= 6

(***************************************************************************)
(* C18: sort_blocks_by_table_columns only reorders: every returned block   *)
(* is an input block with its text, confidence and bbox unchanged and no   *)
(* field added or removed, and the input list itself is never modified.    *)
(***************************************************************************)
C18_OnlyReorders ==
    [][ /\ blocks' = blocks
        /\ SortReturned' =>
              \A i \in DOMAIN sorted_blocks' :
                 /\ \E j \in DOMAIN blocks : sorted_blocks'[i] = blocks[j]
                 /\ DOMAIN sorted_blocks'[i] = {"text", "confidence", "bbox"} ]_vars

\* a call returned all of its input blocks in another order
C18_Witness ==
    /\ SortReturned
    /\ Len(sorted_blocks) = Len(blocks)
    /\ sorted_blocks # blocks

\* C20: when requests run sort_blocks_by_table_columns concurrently, in any
\* interleaving of their steps and whatever recent_logs holds, each request
\* that has ended has the outcome and the ordering it gets when it runs alone
\* on its own blocks, and its blocks and image_width are the ones it was given.
C20_ConcurrentAsAlone ==
    \A r \in Requests :
        /\ req[r].blocks \in ConcLists
        /\ req[r].pc = "done" =>
              /\ req[r].mode = AloneMode(req[r].blocks, req[r].image_width)
              /\ req[r].sorted_blocks = AloneResult(req[r].blocks, req[r].image_width)

\* two requests have ended, one in table mode and one in the fallback, each
\* with a reordered list, and the log buffer holds entries of both, the
\* fallback entry between the detection entry and the table entry
C20_Witness ==
    /\ req[1].pc = "done" /\ req[1].mode = "table" /\ req[1].sorted_blocks # req[1].blocks
    /\ req[2].pc = "done" /\ req[2].mode = "fallback" /\ req[2].sorted_blocks # req[2].blocks
    /\ \E i, j, k \in DOMAIN recent_logs :
          /\ i < j /\ j < k
          /\ << recent_logs[i] >> = DetectLogs(req[1].column_boundaries, req[1].image_width)
          /\ recent_logs[j] = FallbackLog
          /\ recent_logs[k] = TableLog(req[1].blocks, req[1].column_boundaries)

\* the number of usable blocks whose left edge lies in bin i of the num_bins
\* equal bins over [0, image_width]: i/n <= x/w < (i+1)/n, the last bin taking
\* x = w as well
LeftEdgesInBin(i) ==
    LET n == num_bins(image_width)
    IN  Cardinality({j \in DOMAIN blocks :
            /\ Usable(blocks[j])
            /\ \E x \in {left_x(blocks[j])} :
                  /\ x >= 0
                  /\ i * image_width <= x * n
                  /\ \/ x * n < (i + 1) * image_width
                     \/ i = n - 1 /\ x = image_width})

DetectReturned == pc = "done" /\ mode \in {"detect", "table"}

\* C21: every boundary the detector returns is the midpoint of an interior
\* bin (not the first, not the last) of the max(20, image_width // 40) equal
\* bins over [0, image_width]; that bin holds at least max(3, len(blocks) // 20)
\* left edges and at least as many as each of its two neighbours; so a bin
\* with fewer than 3 left edges gives no boundary.
C21_BoundaryIsInteriorPeak ==
    DetectReturned =>
        \A k \in DOMAIN column_boundaries :
            \E i \in 1 .. SetMax({20, image_width \div 40}) - 2 :
                /\ column_boundaries[k] * 2 * SetMax({20, image_width \div 40})
                      = (2 * i + 1) * image_width * Scale(image_width)
                /\ \A here \in {LeftEdgesInBin(i)} :
                      /\ here >= SetMax({3, Len(blocks) \div 20})
                      /\ here >= 3
                      /\ here >= LeftEdgesInBin(i - 1)
                      /\ here >= LeftEdgesInBin(i + 1)

\* boundaries were returned, and the bin of one of them has a neighbour that
\* is not empty
C21_Witness ==
    /\ DetectReturned
    /\ Len(column_boundaries) >= 2
    /\ \E i \in ScannedBins(image_width) :
          /\ \E k \in DOMAIN column_boundaries :
                column_boundaries[k] = peak_x(i, image_width)
          /\ LeftEdgesInBin(i + 1) >= 1

\* the left-edge count of every bin
BinCounts == [i \in 0 .. num_bins(image_width) - 1 |-> LeftEdgesInBin(i)]

\* the bins the scan takes as candidate peaks, given the counts of the bins
CandidateBins(count) ==
    {i \in 1 .. num_bins(image_width) - 2 :
        /\ count[i] >= SetMax({3, Len(blocks) \div 20})
        /\ count[i] >= count[i - 1]
        /\ count[i] >= count[i + 1]}

\* the midpoints of bins i and j are more than 50 pixels apart
MidpointsApart(i, j) == (i - j) * image_width > 50 * num_bins(image_width)

\* K is what the merge keeps of the candidates cand: the leftmost candidate,
\* and every later one that is more than 50 pixels right of the nearest kept
\* candidate to its left
IsKept(K, cand) ==
    /\ K \subseteq cand
    /\ \A i \in cand :
          i \in K <=>
              LET before == {j \in K : j < i}
              IN  IF before = {} THEN \A j \in cand : i <= j
                  ELSE MidpointsApart(i, SetMax(before))

\* a call of the detector alone has returned
DetectorRan == pc = "done" /\ mode = "detect"

\* C22: the merge scans the candidate peaks in ascending x and discards a
\* candidate exactly when it is at most 50 pixels right of the most recently
\* kept one: the first candidate is kept, every discarded candidate lies within
\* 50 pixels to the right of a kept one, and the boundaries returned are the
\* kept candidates when there are 2 or more of them, none otherwise.
C22_MergeKeepsLeftmost ==
    DetectorRan =>
        \A cand \in {CandidateBins(BinCounts)} :
            \E K \in SUBSET cand :
                /\ IsKept(K, cand)
                /\ \A i \in cand : (\A j \in cand : i <= j) => i \in K
                /\ \A i \in cand \ K : \E j \in K : j < i /\ ~MidpointsApart(i, j)
                /\ IF Cardinality(K) >= 2
                   THEN /\ Len(column_boundaries) = Cardinality(K)
                        /\ {column_boundaries[k] : k \in DOMAIN column_boundaries}
                              = {(2 * i + 1) * image_width : i \in K}
                   ELSE column_boundaries = << >>

\* boundaries were returned after the merge discarded a candidate exactly 50
\* pixels right of a kept one and kept a candidate exactly 50 pixels right of
\* a discarded one
C22_Witness ==
    /\ DetectorRan
    /\ Len(column_boundaries) >= 2
    /\ \E cand \in {CandidateBins(BinCounts)} :
          \E K \in SUBSET cand :
              /\ IsKept(K, cand)
              /\ \E j \in K, i \in cand \ K, l \in K :
                    /\ j < i /\ i < l
                    /\ (i - j) * image_width = 50 * num_bins(image_width)
                    /\ (l - i) * image_width = 50 * num_bins(image_width)

\* the left edge x lies in the histogram bin whose midpoint is boundary k
InPeakBin(x, k) ==
    /\ column_boundaries[k] - image_width <= x * Scale(image_width)
    /\ x * Scale(image_width) < column_boundaries[k] + image_width

\* C23: in table mode the blocks whose left edges fall in the bin of a
\* returned boundary all get the same column index, and none of them is put
\* in a column left of that boundary (boundary k starts column k).
C23_PeakBinOneColumn ==
    mode = "table" =>
        \A k \in DOMAIN column_boundaries :
            \A i, j \in DOMAIN assigned :
                InPeakBin(assigned[i].x, k) /\ InPeakBin(assigned[j].x, k) =>
                    /\ assigned[i].column = assigned[j].column
                    /\ assigned[i].column >= k

\* seq with its first element moved to the end
Rotated(seq) == IF seq = << >> THEN seq ELSE Tail(seq) \o << seq[1] >>

\* seq with the elements at positions k and k + 1 exchanged
SwappedAt(seq, k) ==
    IF k < 1 \/ k + 1 > Len(seq) THEN seq
    ELSE [i \in DOMAIN seq |-> IF i = k THEN seq[k + 1] ELSE IF i = k + 1 THEN seq[k] ELSE seq[i]]

\* some permutations of seq: back to front, rotated, two neighbours exchanged
\* at the front and in the middle
Rearrangements(seq) ==
    {Reversed(seq), Rotated(seq), SwappedAt(seq, 1), SwappedAt(seq, Len(seq) \div 2)}

\* C24: the detector does not depend on the order of its input: called on a
\* permutation of the blocks, with the same image_width, it returns the same
\* boundaries, hence the same choice between table mode and fallback.
C24_OrderIndependent ==
    pc = "done" /\ mode = "detect" =>
        \A p \in Rearrangements(blocks) :
            detect_table_columns_histogram(p, image_width) = column_boundaries

\* the detector returned boundaries for a list that its rearrangements differ
\* from
C24_Witness ==
    /\ pc = "done" /\ mode = "detect"
    /\ Len(column_boundaries) >= 2
    /\ \A p \in Rearrangements(blocks) : p # blocks

\* e is a RuntimeError whose message contains "could not execute a primitive"
IsPrimitiveError(e) ==
    /\ e.type = "RuntimeError"
    /\ \E i \in DOMAIN e.message : e.message[i] = "could not execute a primitive"

\* C25: within one /ocr request the engine is called on the request image at
\* most 3 times, and a further attempt follows an attempt only if that attempt
\* raised a RuntimeError whose message contains "could not execute a
\* primitive": while the retry loop is running every call made so far raised
\* that error and fewer than 3 calls were made; a call that returned, raised
\* another RuntimeError or raised another exception is the last one.
C25_AtMostThreeAttempts ==
    \A h \in Handlers :
        LET calls == srv[h].engine_calls
        IN  /\ Len(calls) <= 3
            /\ \A k \in 1 .. Len(calls) - 1 : IsPrimitiveError(calls[k])
            /\ srv[h].pc = "attempt" =>
                  /\ Len(calls) < 3
                  /\ \A k \in DOMAIN calls : IsPrimitiveError(calls[k])
            /\ srv[h].pc # "attempt" /\ calls # << >> =>
                  ~IsPrimitiveError(calls[Len(calls)])

\* the third engine call of a request returned, after two calls that raised
\* the retryable error
C25_Witness ==
    \E h \in Handlers :
        /\ srv[h].pc = "transform"
        /\ Len(srv[h].engine_calls) = 3
        /\ IsPrimitiveError(srv[h].engine_calls[2])

\* handler h takes a step that calls the engine on the request image
EngineCallStep(h) == srv[h].pc = "attempt" /\ srv'[h] # srv[h]

\* the response handler h returns in this step is of status s
Responds(h, s) ==
    /\ srv[h].pc # "done"
    /\ srv'[h].pc = "done"
    /\ srv'[h].responses[Len(srv'[h].responses)].status = s

\* C26: /ocr never calls the engine on the request image while ocr_ready is
\* false; and an /ocr request whose re-attempted warmup failed is answered 503
\* 'not_ready' whatever its body is, without image data too.
C26_NoEngineCallWhileNotReady ==
    [][\A h \in Handlers :
          /\ EngineCallStep(h) => ocr_ready
          /\ srv[h].kind = "ocr" /\ srv[h].pc = "warmed" /\ srv[h].warmup_result = "False"
                /\ srv'[h] # srv[h] =>
                    /\ Responds(h, 503)
                    /\ srv'[h].responses[1].body.status = "not_ready"]_vars

\* C27: once ocr_ready is True it never becomes False again.
C27_ReadinessMonotonic == [][ocr_ready => ocr_ready']_vars

\* no other handler has begun its request
OthersNotBegun(h) == \A g \in Handlers \ {h} : srv[g].pc = "start"

\* C28: GET /ready answers 200 'ready' if ocr_ready is true or the warmup this
\* request re-attempted returned True, and 503 'not_ready' with
\* ocr_warmup_error otherwise; it re-attempts the warmup only if it found
\* ocr_ready false; and after a 200 of a request that ran alone ocr_ready is
\* true and ocr_warmup_error is None (after a 503 of such a request the error
\* is the one its own warmup raised).
C28_ReadyResponse ==
    [][\A h \in Handlers :
          srv[h].kind = "ready" /\ srv'[h] # srv[h] =>
              /\ srv[h].pc = "start" /\ ocr_ready =>
                    Responds(h, 200) /\ srv'[h].responses[1].body.status = "ready"
              /\ srv[h].pc = "start" /\ ~ocr_ready => srv'[h].pc = "warmup"
              /\ srv'[h].pc = "warmup" => ~ocr_ready
              /\ srv[h].pc = "warmed" /\ srv[h].warmup_result = "True" =>
                    Responds(h, 200) /\ srv'[h].responses[1].body.status = "ready"
              /\ srv[h].pc = "warmed" /\ srv[h].warmup_result = "False" =>
                    /\ Responds(h, 503)
                    /\ srv'[h].responses[1].body.status = "not_ready"
                    /\ srv'[h].responses[1].body.error = ocr_warmup_error
                    /\ OthersNotBegun(h) => ocr_warmup_error = ErrorOf(srv[h].e)
              /\ Responds(h, 200) /\ OthersNotBegun(h) =>
                    ocr_ready' /\ ocr_warmup_error' = NoError]_vars

\* a /ready request that ran alone was answered 503 with the error its warmup
\* raised
C28_Witness ==
    \E h \in Handlers :
        /\ srv[h].kind = "ready"
        /\ srv[h].pc = "done"
        /\ OthersNotBegun(h)
        /\ srv[h].responses[1].status = 503
        /\ ~srv[h].responses[1].body.error.is_none

\* C29: an /ocr request has no response before it ends and exactly one, of
\* status 200, 400, 503 or 500, when it has ended; every exception is answered
\* by the handler.  200 is returned only after an engine call returned a
\* result that is not None; an engine call that raises without being retried
\* (the retryable error on the third attempt, any other exception) and a None
\* result are answered 500 with error, error_type, traceback and hint.
C29_OneResponse ==
    [][\A h \in Handlers :
          srv[h].kind = "ocr" =>
              /\ Len(srv'[h].responses) = IF srv'[h].pc = "done" THEN 1 ELSE 0
              /\ srv'[h].pc = "done" => srv'[h].responses[1].status \in {200, 400, 503, 500}
              /\ Responds(h, 200) =>
                    /\ srv[h].engine_calls # << >>
                    /\ srv[h].engine_calls[Len(srv[h].engine_calls)].type = "None"
                    /\ ~srv[h].result.is_none
              /\ \/ srv[h].pc = "attempt" /\ srv'[h].pc = "done"
                 \/ srv[h].pc = "transform" /\ srv[h].result.is_none /\ srv'[h] # srv[h]
                 => /\ Responds(h, 500)
                    /\ DOMAIN srv'[h].responses[1].body
                          = {"error", "error_type", "traceback", "hint"}]_vars

\* an /ocr request was answered 500 for the retryable error, which only the
\* third attempt lets through
C29_Witness ==
    \E h \in Handlers :
        /\ srv[h].kind = "ocr"
        /\ srv[h].pc = "done"
        /\ srv[h].responses[1].status = 500
        /\ srv[h].responses[1].body.error_type = "RuntimeError"
        /\ \E i \in DOMAIN srv[h].responses[1].body.error :
              srv[h].responses[1].body.error[i] = "could not execute a primitive"

\* the sum of the delays
RECURSIVE Total(_)
Total(delays) == IF delays = << >> THEN 0 ELSE delays[1] + Total(Tail(delays))

\* C30: the retry backoff doubles from 1 second: nothing is slept before the
\* first engine call, 1 second before the second and 2 seconds before the
\* third, so a request sleeps at most 3 seconds in all.
C30_BackoffDoubles ==
    \A h \in Handlers :
        /\ srv[h].sleeps = SubSeq(<< 1, 2 >>, 1, Len(srv[h].sleeps))
        /\ Len(srv[h].sleeps) = IF srv[h].engine_calls = << >> THEN 0
                                ELSE Len(srv[h].engine_calls) - 1
        /\ Total(srv[h].sleeps) <= 3

\* a request made its third engine call after sleeping 1 and 2 seconds
C30_Witness ==
    \E h \in Handlers :
        /\ Len(srv[h].engine_calls) = 3
        /\ srv[h].sleeps = << 1, 2 >>

====
